---- MODULE Spec2Model ----
(***************************************************************************)
(* ChatVat bot runtime: the ingestion pipeline (IngestionEngine), the      *)
(* ChromaDB singleton wrapper (VectorManager) and the background           *)
(* scheduler (background_ingestion_loop / lifespan).                       *)
(*                                                                         *)
(* Threads: "task" is the asyncio task created by lifespan, running on the *)
(* event loop; "t1" and "t2" are other threads of the process that call    *)
(* run_ingestion() themselves (the helper "to run the pipeline manually"). *)
(***************************************************************************)
EXTENDS Integers, Sequences, FiniteSets, TLC

\* ------------------------------------------------------------------ bounds
\* Largest number of documents one ingestion run collects in the model.
MaxBatch == 3
\* Largest number of configured sources.
NSources == 2
\* Largest refresh_interval_minutes a configuration holds.
MaxInterval == 1
\* Granularity of the model's clock, in seconds.
TickSeconds == 5
\* The loop's run_ingestion() calls are counted up to this number.
RunCountCap == 2
\* Largest number of reads one query makes through its retriever.
MaxReads == 2
\* Longest string value of a configuration, in tokens.
MaxStrLen == 3

\* --------------------------------------------------------- program constants
\* main.py: await asyncio.sleep(5)
WarmupSeconds == 5
\* main.py: sleep_seconds = interval_minutes * 60
SecondsPerMinute == 60

Threads == {"task", "t1", "t2"}
Texts == {"A", "B", "C"}
Seeds == {1, 2}
NoThread == "free"
None == "None"

\* config_loader.py, DataSource.type
SourceTypes == {"static_url", "dynamic_json", "local_file"}

RECURSIVE SeqsUpTo(_, _)
SeqsUpTo(S, n) ==
    IF n = 0 THEN {<<>>}
    ELSE LET shorter == SeqsUpTo(S, n - 1)
         IN  shorter \cup {Append(s, x) : s \in {q \in shorter : Len(q) = n - 1}, x \in S}

SourceLists == SeqsUpTo(SourceTypes, NSources)

\* The configuration files the model starts from: missing/malformed (ok = FALSE)
\* or a RuntimeConfig with its sources and refresh_interval_minutes.
NoConfig == [ok |-> FALSE, sources |-> <<>>, interval |-> 0]

ConfigFiles(lists, intervals) ==
    {NoConfig}
    \cup {[ok |-> TRUE, sources |-> l, interval |-> i] : l \in lists, i \in intervals}

\* load_runtime_config(): None (NoConfig here) when the file is missing or does
\* not parse, else the RuntimeConfig read from it.
load_runtime_config(file) == IF file.ok THEN file ELSE NoConfig

\* ------------------------------------------------- ${VAR} in string values
\* A string value is a sequence of tokens: a plain piece of text, or a
\* placeholder ${X}, ${Y} as the pattern \$\{(\w+)\} matches it.
EnvVarNames == {"X", "Y"}
Tokens == {"a", "${X}", "${Y}"}
VarOf == [tok \in {"${X}", "${Y}"} |-> IF tok = "${X}" THEN "X" ELSE "Y"]

\* os.environ: the variables that are set, with their values.
EnvValues == {<<"v">>}
Environs == UNION {[S -> EnvValues] : S \in SUBSET EnvVarNames}
NoEnviron == << >>

\* _expand_env_vars on one string value: pattern.sub(replacer, ...) replaces
\* each placeholder by os.environ.get(var_name, match.group(0)), in one pass.
RECURSIVE expand_env_vars(_, _)
expand_env_vars(str, env) ==
    IF str = <<>> THEN <<>>
    ELSE LET tok == Head(str)
             out == IF tok \in DOMAIN VarOf /\ VarOf[tok] \in DOMAIN env
                    THEN env[VarOf[tok]]
                    ELSE <<tok>>
         IN  out \o expand_env_vars(Tail(str), env)

\* The configuration files whose one source has a string value `target`.
ConfigFilesWithTarget(targets) ==
    {NoConfig}
    \cup {[ok |-> TRUE, sources |-> <<"static_url">>, interval |-> 0, target |-> s] :
             s \in targets}

\* ---------------------------------------------------------------- hashing
\* Python's hash() of a str: a 64-bit value keyed by the per-process hash seed.
\* It is not injective; under seed 2 the texts "A" and "C" stand for a colliding
\* pair.  str() of the integer is its decimal rendering (injective), so ids are
\* compared as these integers.
PyHash(seed, text) ==
    IF seed = 1
    THEN CASE text = "A" -> 3 [] text = "B" -> -1 [] OTHER -> 2
    ELSE CASE text = "A" -> -2 [] text = "B" -> 3 [] OTHER -> -2

\* Variant: ids numbered by position in the batch instead of hashed from the text.
TemplateIdsByIndex(seed, documents) == [i \in 1..Len(documents) |-> i]

\* bot_template core/vector.py: ids = [str(hash(doc.page_content)) for doc in documents]
TemplateIds(seed, documents) == [i \in 1..Len(documents) |-> PyHash(seed, documents[i])]

\* chatvat/core/vector.py: unique_map keeps the first document of each id, in
\* insertion order; returns the clean documents.
RECURSIVE UniqueMap(_, _, _)
UniqueMap(seed, documents, seen) ==
    IF documents = <<>> THEN <<>>
    ELSE LET doc_id == PyHash(seed, Head(documents))
         IN  IF doc_id \in seen
             THEN UniqueMap(seed, Tail(documents), seen)
             ELSE <<Head(documents)>> \o UniqueMap(seed, Tail(documents), seen \cup {doc_id})

\* ------------------------------------------------------------------ store
\* The Chroma collection: entries (id, text).  add_documents(documents, ids)
\* upserts by id, one entry after the other.
PutEntry(st, id, text) == {e \in st : e.id # id} \cup {[id |-> id, text |-> text]}

RECURSIVE AddDocuments(_, _, _)
AddDocuments(st, documents, ids) ==
    IF documents = <<>> THEN st
    ELSE AddDocuments(PutEntry(st, Head(ids), Head(documents)), Tail(documents), Tail(ids))

SeqRange(s) == {s[i] : i \in 1..Len(s)}


\* ------------------------------------------------------------------ state
VARIABLES
    cfg,              \* the configuration file at CONFIG_PATH
    startupCfg,       \* the configuration file as it was when the process started
    targets,          \* the hostname of each configured source's target, by position
    web,              \* the texts the configured remote sources can serve
    hashSeed,         \* this process's hash seed (PYTHONHASHSEED)
    environ,          \* os.environ: the variables set, with their values
    dupIdsRejected,   \* the installed Chroma refuses a batch that repeats an id
    instance,         \* VectorManager._instance: None, or the object's state
    init_lock,        \* VectorManager._init_lock: its holder, or NoThread
    initCalls,        \* number of times _initialize has run
    write_lock,       \* the instance's write_lock: its holder, or NoThread
    store,            \* the Chroma collection
    everWritten,      \* texts of every batch add_documents accepted
    th,               \* per thread: position in run_ingestion and its locals
    schedState,       \* position of background_ingestion_loop
    sleepLeft,        \* seconds left of the asyncio.sleep in progress
    slept,            \* seconds slept in the sleep in progress
    interval_minutes, \* the loop's local, -1 before it is read
    cancelRequested,  \* ingestion_task.cancel() has been called
    cancelledAt,      \* where the task was when CancelledError was raised in it
    runsStarted,      \* run_ingestion() calls made by the loop (up to RunCountCap)
    lifespan,         \* lifespan(): starting, serving, shutting_down, awaiting, exited
    query,            \* the query path: its position and what its reads returned
    health            \* a /health request: its position and what it was answered

storeVars == <<instance, init_lock, initCalls, write_lock, store, everWritten>>
envVars   == <<cfg, startupCfg, targets, web, hashSeed, environ, dupIdsRejected>>
schedVars == <<schedState, sleepLeft, slept, interval_minutes, cancelRequested,
               cancelledAt, runsStarted, lifespan>>
reqVars == <<query, health>>
vars == <<envVars, storeVars, th, schedVars, reqVars>>

\* A thread that is not inside run_ingestion().
Fresh ==
    [pc |-> "idle", config |-> NoConfig, idx |-> 0, all_docs |-> <<>>, results |-> <<>>,
     got |-> "-", handed |-> [documents |-> <<>>, ids |-> <<>>], addFailed |-> FALSE,
     overwrote |-> FALSE, upsertCalls |-> 0, upsertReturn |-> "-", lockTaken |-> FALSE,
     outcome |-> "-", requests |-> {}]

\* Fields of th[p] that are not the code's own variables: got (the state of the
\* instance get_vector_db() returned), results (what each source of the run came
\* to), handed (the arguments of add_documents), addFailed (add_documents
\* raised), overwrote (an id of the batch was in the collection already),
\* upsertCalls, upsertReturn (how upsert_documents came back), lockTaken,
\* outcome (how the run ended, as logged) and requests (the positions of the
\* sources for which a network request was issued).

Min(a, b) == IF a < b THEN a ELSE b
Max(a, b) == IF a > b THEN a ELSE b

\* -------------------------------------------------- VectorManager.__new__
\* First check, outside the lock: an existing _instance is returned as it is.
NewFirstCheck(t, inst) ==
    IF inst = None
    THEN [t EXCEPT !.pc = "init_wait"]
    ELSE [t EXCEPT !.got = inst, !.pc = "load_config"]

\* _initialize(): sets embedding_fn, client, collection, vector_store and last
\* write_lock, or raises; _instance was assigned before the call and stays.
InitializeResult(ok) == IF ok THEN "ready" ELSE "broken"

\* self.write_lock exists only once _initialize has completed.
HasWriteLock(inst) == inst = "ready"

\* ------------------------------------------------------------ target hosts
\* urlparse(url).hostname of a target: a public host, one of the internal
\* names, or none ("").
Hosts == {"example.com", "localhost", "127.0.0.1", "0.0.0.0", "::1", ""}

\* Every source pointing at a public host.
PublicTargets == [i \in 1..NSources |-> "example.com"]

\* RuntimeCrawler._is_safe_url
is_safe_url(hostname) ==
    IF hostname = "" THEN FALSE
    ELSE IF hostname \in {"localhost", "127.0.0.1", "0.0.0.0", "::1"} THEN FALSE
    ELSE TRUE

\* Whether the strategy of a source sends a request to its target:
\* fetch_page returns None before crawling when the URL is not safe;
\* RuntimeJsonLoader.fetch_json does session.get(url) on whatever it is given.
IssuesRequest(type, hostname) ==
    IF type = "static_url" THEN is_safe_url(hostname) ELSE TRUE

\* ------------------------------------------------- IngestionEngine strategies
\* RuntimeCrawler.fetch_page: the page's markdown, or None (unsafe URL, failed
\* crawl, any exception).
FetchPageResults(texts) == {None} \cup texts

\* _process_static_url: one Document for a page, none when markdown is falsy.
process_static_url(markdown) == IF markdown # None THEN <<markdown>> ELSE <<>>

\* _process_dynamic_json: one Document per chunk load_and_transform returns.
process_dynamic_json(text_chunks) == text_chunks

\* What processing one remote source can come to, with room for `room` documents:
\* the strategy returns documents (possibly none), or an exception escapes it.
SourceOutcomes(type, texts, room) ==
    {[kind |-> "raise", docs |-> <<>>]}
    \cup IF type = "static_url"
         THEN {[kind |-> "ok", docs |-> process_static_url(m)] :
                  m \in IF room > 0 THEN FetchPageResults(texts) ELSE {None}}
         ELSE {[kind |-> "ok", docs |-> process_dynamic_json(c)] :
                  c \in SeqsUpTo(texts, room)}

\* What the strategy of a source comes to, given its target's hostname: without
\* a request fetch_page gives None and the source yields nothing.
FetchOutcomes(type, hostname, texts, room) ==
    IF IssuesRequest(type, hostname)
    THEN SourceOutcomes(type, texts, room)
    ELSE {[kind |-> "ok", docs |-> process_static_url(None)]}

\* Variant: no inner try/except, an exception of one source reaches the outer
\* handler and ends the run.
AfterSourceAbort(t, out) ==
    IF out.kind = "raise"
    THEN [t EXCEPT !.outcome = "critical", !.pc = "returned"]
    ELSE [t EXCEPT !.results = Append(@, out),
                   !.all_docs = IF out.docs # <<>> THEN @ \o out.docs ELSE @,
                   !.idx = @ + 1,
                   !.pc = "loop"]

\* run_pipeline, the loop body's inner try/except: documents are appended, an
\* exception is logged, and either way the loop goes on to the next source.
AfterSource(t, out) ==
    [t EXCEPT !.results = Append(@, out),
              !.all_docs = IF out.docs # <<>> THEN @ \o out.docs ELSE @,
              !.idx = @ + 1,
              !.pc = "loop"]

\* run_pipeline step 1: no configuration or no sources ends the run.
AfterLoadConfig(t, config) ==
    IF config = NoConfig \/ config.sources = <<>>
    THEN [t EXCEPT !.outcome = "skipped", !.pc = "returned"]
    ELSE [t EXCEPT !.config = config, !.idx = 1, !.pc = "loop"]

\* Variant: the AttributeError of a store without write_lock leaves run_pipeline.
UpsertEntryUncaught(t, inst) ==
    IF t.all_docs = <<>>
    THEN [t EXCEPT !.upsertReturn = "normal", !.outcome = "complete", !.pc = "returned"]
    ELSE IF HasWriteLock(inst)
         THEN [t EXCEPT !.pc = "lock_wait"]
         ELSE [t EXCEPT !.upsertReturn = "raised", !.outcome = "raised",
                        !.pc = "returned"]

\* upsert_documents up to the lock: `if not documents: return`, then
\* `with self.write_lock`, which raises AttributeError on an instance without
\* the attribute (caught by run_pipeline's outer handler, logged CRITICAL).
UpsertEntry(t, inst) ==
    IF t.all_docs = <<>>
    THEN [t EXCEPT !.upsertReturn = "normal", !.outcome = "complete", !.pc = "returned"]
    ELSE IF HasWriteLock(inst)
         THEN [t EXCEPT !.pc = "lock_wait"]
         ELSE [t EXCEPT !.upsertReturn = "raised", !.outcome = "critical",
                        !.pc = "returned"]

\* Variant: step 3 without `if all_docs:`.
AfterLoopNoCheck(t, inst) == UpsertEntry([t EXCEPT !.upsertCalls = @ + 1], inst)

\* run_pipeline step 3, reached when the loop is over: `if all_docs:` calls
\* self.db.upsert_documents(all_docs), else the empty batch is only logged.
AfterLoop(t, inst) ==
    IF t.all_docs # <<>>
    THEN UpsertEntry([t EXCEPT !.upsertCalls = @ + 1], inst)
    ELSE [t EXCEPT !.outcome = "unchanged", !.pc = "returned"]

\* Variant: the batch is upserted as soon as it holds a document, with sources
\* still to come.
LoopBodyWriteEarly(t, inst) ==
    IF t.idx > Len(t.config.sources) \/ t.all_docs # <<>>
    THEN AfterLoop(t, inst)
    ELSE IF t.config.sources[t.idx] \in {"static_url", "dynamic_json"}
         THEN [t EXCEPT !.pc = "await"]
         ELSE [t EXCEPT !.results = Append(@, [kind |-> "skip", docs |-> <<>>]),
                        !.idx = @ + 1]

\* Variant: a final `else` that hands any other source type to the JSON loader.
LoopBodyFetchAnyType(t, inst) ==
    IF t.idx > Len(t.config.sources)
    THEN AfterLoop(t, inst)
    ELSE [t EXCEPT !.pc = "await"]

\* One pass of `for source in config.sources` up to the strategy's await; a
\* local_file source matches neither branch and yields nothing.
LoopBody(t, inst) ==
    IF t.idx > Len(t.config.sources)
    THEN AfterLoop(t, inst)
    ELSE IF t.config.sources[t.idx] \in {"static_url", "dynamic_json"}
         THEN [t EXCEPT !.pc = "await"]
         ELSE [t EXCEPT !.results = Append(@, [kind |-> "skip", docs |-> <<>>]),
                        !.idx = @ + 1]

\* What run_pipeline returns to run_ingestion: the bare `return` of step 1 and
\* the end of the function body both give None, whatever the run did.
run_pipeline_return(t) == [kind |-> "None"]

\* ------------------------------------------------ VectorManager.upsert_documents
\* Variant: the write section is entered without waiting for the lock.
LockFreeAlways == TRUE

\* `with self.write_lock`: entered only when no thread holds it.
LockFree == write_lock = NoThread

\* What upsert_documents hands to vector_store.add_documents: every document
\* of the batch, with the hash of its text as id.
UpsertArgs(seed, documents) ==
    [documents |-> documents, ids |-> TemplateIds(seed, documents)]

\* The body of the with-block: add_documents accepts the batch, or raises (the
\* embedding or the database fails, Chroma refuses the ids) and the exception
\* is caught and logged.
UpsertBody(t, args, ok) ==
    IF ok
    THEN [t EXCEPT !.handed = args, !.pc = "written"]
    ELSE [t EXCEPT !.handed = args, !.addFailed = TRUE, !.pc = "written"]

\* Whether add_documents can accept the batch (TRUE) or raise (FALSE): any call
\* can fail; a Chroma that validates ids raises on a repeated id, one that does
\* not upserts entry after entry.
AddOutcomes(ids, rejecting) ==
    IF rejecting /\ Cardinality(SeqRange(ids)) < Len(ids) THEN {FALSE} ELSE BOOLEAN

\* The collection after the body: the batch upserted, or unchanged.
StoreAfter(st, args, ok) ==
    IF ok THEN AddDocuments(st, args.documents, args.ids) ELSE st

\* Variant: acquire() and release() by hand around the write, the release
\* skipped when add_documents has raised.
WithExitLeaking(p, t) == IF t.addFailed THEN p ELSE NoThread

\* `with self.write_lock` is left, normally or after the except clause has
\* logged the failure: the lock is released.
WithExit(p, t) == NoThread

\* Leaving the with-block: upsert_documents returns None, run_pipeline logs
\* "Ingestion Complete." and returns.
AfterUpsert(t) ==
    [t EXCEPT !.upsertReturn = "normal", !.outcome = "complete", !.pc = "returned"]


\* ---------------------------------------------------------------- actions
Set(p, t) == th' = [th EXCEPT ![p] = t]

\* A thread calls run_ingestion(): IngestionEngine() and then run_pipeline().
CallRunIngestion(p) ==
    /\ th[p].pc = "idle"
    /\ Set(p, [Fresh EXCEPT !.pc = "new"])
    /\ UNCHANGED <<reqVars, envVars, storeVars, schedVars>>

\* get_vector_db() -> VectorManager.__new__, the check outside the lock.
NewCheck(p) ==
    /\ th[p].pc = "new"
    /\ Set(p, NewFirstCheck(th[p], instance))
    /\ UNCHANGED <<reqVars, envVars, storeVars, schedVars>>

\* __new__ inside `with cls._init_lock`: the second check; the instance is
\* assigned to cls._instance before _initialize runs.
NewLocked(p) ==
    /\ th[p].pc = "init_wait"
    /\ init_lock = NoThread
    /\ IF instance = None
       THEN /\ instance' = "allocated"
            /\ init_lock' = p
            /\ Set(p, [th[p] EXCEPT !.pc = "initializing"])
       ELSE /\ Set(p, [th[p] EXCEPT !.got = instance, !.pc = "load_config"])
            /\ UNCHANGED <<instance, init_lock>>
    /\ UNCHANGED <<reqVars, envVars, initCalls, write_lock, store, everWritten, schedVars>>

\* _initialize() completes or raises; the with-block releases _init_lock; a
\* raised exception leaves IngestionEngine() and run_ingestion().
Initialize(p) ==
    /\ th[p].pc = "initializing"
    /\ \E ok \in BOOLEAN :
          /\ instance' = InitializeResult(ok)
          /\ Set(p, IF ok
                    THEN [th[p] EXCEPT !.got = InitializeResult(ok), !.pc = "load_config"]
                    ELSE [th[p] EXCEPT !.outcome = "raised", !.pc = "returned"])
    /\ init_lock' = NoThread
    /\ initCalls' = Min(initCalls + 1, 2)
    /\ UNCHANGED <<reqVars, envVars, write_lock, store, everWritten, schedVars>>

\* run_pipeline step 1.
LoadConfig(p) ==
    /\ th[p].pc = "load_config"
    /\ Set(p, AfterLoadConfig(th[p], load_runtime_config(cfg)))
    /\ UNCHANGED <<reqVars, envVars, storeVars, schedVars>>

\* run_pipeline step 2 up to the next await, and step 3's call of upsert_documents.
LoopStep(p) ==
    /\ th[p].pc = "loop"
    /\ Set(p, LoopBody(th[p], instance))
    /\ UNCHANGED <<reqVars, envVars, storeVars, schedVars>>

\* The awaited strategy returns or raises.  A cancelled task does not resume here.
FetchReturn(p) ==
    /\ th[p].pc = "await"
    /\ ~(p = "task" /\ cancelRequested)
    /\ LET type == th[p].config.sources[th[p].idx]
           hostname == targets[th[p].idx]
       IN  \E out \in FetchOutcomes(type, hostname, web, MaxBatch - Len(th[p].all_docs)) :
              Set(p, [AfterSource(th[p], out) EXCEPT
                         !.requests = IF IssuesRequest(type, hostname)
                                      THEN @ \cup {th[p].idx} ELSE @])
    /\ UNCHANGED <<reqVars, envVars, storeVars, schedVars>>

\* upsert_documents: `with self.write_lock` is entered.
UpsertAcquire(p) ==
    /\ th[p].pc = "lock_wait"
    /\ LockFree
    /\ write_lock' = p
    /\ Set(p, [th[p] EXCEPT !.lockTaken = TRUE, !.pc = "writing"])
    /\ UNCHANGED <<reqVars, envVars, instance, init_lock, initCalls, store, everWritten, schedVars>>

\* upsert_documents: the try-block inside the lock.
UpsertWrite(p) ==
    /\ th[p].pc = "writing"
    /\ LET args == UpsertArgs(hashSeed, th[p].all_docs)
       IN  \E ok \in AddOutcomes(args.ids, dupIdsRejected) :
              /\ Set(p, [UpsertBody(th[p], args, ok) EXCEPT
                            !.overwrote = \E e \in store : e.id \in SeqRange(args.ids)])
              /\ store' = StoreAfter(store, args, ok)
              /\ everWritten' = IF ok THEN everWritten \cup SeqRange(args.documents)
                                      ELSE everWritten
    /\ UNCHANGED <<reqVars, envVars, instance, init_lock, initCalls, write_lock, schedVars>>

\* upsert_documents: the with-block is left and the call returns.
UpsertRelease(p) ==
    /\ th[p].pc = "written"
    /\ write_lock' = WithExit(p, th[p])
    /\ Set(p, AfterUpsert(th[p]))
    /\ UNCHANGED <<reqVars, envVars, instance, init_lock, initCalls, store, everWritten, schedVars>>

\* run_ingestion() is over for a calling thread.
Return(p) ==
    /\ th[p].pc = "returned"
    /\ Set(p, Fresh)
    /\ UNCHANGED <<reqVars, envVars, storeVars, schedVars>>

\* The steps of one run, whoever started it.
RunStep(p) ==
    \/ NewCheck(p)
    \/ NewLocked(p)
    \/ Initialize(p)
    \/ LoadConfig(p)
    \/ LoopStep(p)
    \/ FetchReturn(p)
    \/ UpsertAcquire(p)
    \/ UpsertWrite(p)
    \/ UpsertRelease(p)

\* ------------------------------------------- background_ingestion_loop, lifespan
\* Variant: the interval taken as seconds.
SleepSecondsNoFactor(im) == im

\* sleep_seconds = interval_minutes * 60
SleepSeconds(im) == im * SecondsPerMinute

\* Variant: the loop is entered for an interval of 0 too.
AfterRunStateAlways(im) == IF im >= 0 THEN "Waiting" ELSE "Disabled"

\* `if interval_minutes > 0:` the loop sleeps and runs again, else it ends.
AfterRunState(im) == IF im > 0 THEN "Waiting" ELSE "Disabled"

\* Variant: a missing configuration read as an interval of one minute.
ReadIntervalDefaultOne(config) == IF config = NoConfig THEN 1 ELSE config.interval

\* interval_minutes = getattr(config, 'refresh_interval_minutes', 0), read once
\* after the initial run; None has no such attribute.
ReadInterval(config) == IF config = NoConfig THEN 0 ELSE config.interval

\* Variant: the store write awaited too (run in an executor).
AwaitPointsWithWrite == {"await", "writing"}

\* The positions inside run_ingestion() at which the coroutine is suspended in
\* an await that yields to the event loop: the strategies' network fetches.
\* upsert_documents and the lock are synchronous calls.
AwaitPoints == {"await"}

\* The task is suspended: in asyncio.sleep, or in a fetch of its run.
TaskSuspended ==
    \/ schedState \in {"WarmingUp", "Waiting"}
    \/ schedState = "Running" /\ th["task"].pc \in AwaitPoints

\* Time passes while the task sleeps.
Tick ==
    /\ schedState \in {"WarmingUp", "Waiting"}
    /\ sleepLeft > 0
    /\ sleepLeft' = Max(0, sleepLeft - TickSeconds)
    /\ slept' = slept + TickSeconds
    /\ UNCHANGED <<reqVars, envVars, storeVars, th, schedState, interval_minutes,
                   cancelRequested, cancelledAt, runsStarted, lifespan>>

\* Variant: the sleep returns at once, whatever time it was given.
SleepOverAtOnce == ~cancelRequested

\* Variant: a sleep whose time is up returns although the task was cancelled.
SleepOverIgnoringCancel == sleepLeft = 0

\* `await asyncio.sleep(...)` returns to the loop: its time is up and the task
\* has not been cancelled (a cancelled task gets CancelledError there instead).
SleepOver == sleepLeft = 0 /\ ~cancelRequested

\* asyncio.sleep returns and the loop calls `await run_ingestion()`.
SchedWake ==
    /\ schedState \in {"WarmingUp", "Waiting"}
    /\ SleepOver
    /\ schedState' = "Running"
    /\ runsStarted' = Min(runsStarted + 1, RunCountCap)
    /\ Set("task", [Fresh EXCEPT !.pc = "new"])
    /\ UNCHANGED <<reqVars, envVars, storeVars, sleepLeft, slept, interval_minutes,
                   cancelRequested, cancelledAt, lifespan>>

\* Variant: run_ingestion() started with asyncio.create_task and not awaited;
\* the loop goes on to read the interval and to sleep while the run goes on.
SchedAfterRunNotAwaited ==
    /\ schedState = "Running"
    /\ LET im == IF interval_minutes = -1
                 THEN ReadInterval(load_runtime_config(cfg))
                 ELSE interval_minutes
       IN  /\ interval_minutes' = im
           /\ schedState' = AfterRunState(im)
           /\ sleepLeft' = IF AfterRunState(im) = "Waiting" THEN SleepSeconds(im) ELSE 0
    /\ slept' = 0
    /\ UNCHANGED <<reqVars, envVars, storeVars, th, cancelRequested, cancelledAt,
                   runsStarted, lifespan>>

\* Variant: no try/except around `await run_ingestion()`; an exception that
\* run_ingestion() raises ends the task.
SchedAfterRunUncaught ==
    /\ schedState = "Running"
    /\ th["task"].pc = "returned"
    /\ LET im == IF interval_minutes = -1
                 THEN ReadInterval(load_runtime_config(cfg))
                 ELSE interval_minutes
           after == IF th["task"].outcome = "raised" THEN "Crashed" ELSE AfterRunState(im)
       IN  /\ interval_minutes' = im
           /\ schedState' = after
           /\ sleepLeft' = IF after = "Waiting" THEN SleepSeconds(im) ELSE 0
    /\ slept' = 0
    /\ Set("task", Fresh)
    /\ UNCHANGED <<reqVars, envVars, storeVars, cancelRequested, cancelledAt, runsStarted,
                   lifespan>>

\* Variant: the interval read from the file again after every run.
SchedAfterRunReread ==
    /\ schedState = "Running"
    /\ th["task"].pc = "returned"
    /\ LET im == ReadInterval(load_runtime_config(cfg))
       IN  /\ interval_minutes' = im
           /\ schedState' = AfterRunState(im)
           /\ sleepLeft' = IF AfterRunState(im) = "Waiting" THEN SleepSeconds(im) ELSE 0
    /\ slept' = 0
    /\ Set("task", Fresh)
    /\ UNCHANGED <<reqVars, envVars, storeVars, cancelRequested, cancelledAt, runsStarted,
                   lifespan>>

\* run_ingestion() returned, or raised an Exception that the loop's try/except
\* logged: after the initial run the interval is read; then the loop sleeps
\* for the interval or ends.
SchedAfterRun ==
    /\ schedState = "Running"
    /\ th["task"].pc = "returned"
    /\ LET im == IF interval_minutes = -1
                 THEN ReadInterval(load_runtime_config(cfg))
                 ELSE interval_minutes
       IN  /\ interval_minutes' = im
           /\ schedState' = AfterRunState(im)
           /\ sleepLeft' = IF AfterRunState(im) = "Waiting" THEN SleepSeconds(im) ELSE 0
    /\ slept' = 0
    /\ Set("task", Fresh)
    /\ UNCHANGED <<reqVars, envVars, storeVars, cancelRequested, cancelledAt, runsStarted,
                   lifespan>>

\* lifespan's startup part: the task is created, whatever the configuration
\* file holds, and begins with its warm-up sleep; lifespan yields.
Startup ==
    /\ lifespan = "starting"
    /\ schedState = "Idle"
    /\ schedState' = "WarmingUp"
    /\ sleepLeft' = WarmupSeconds
    /\ lifespan' = "serving"
    /\ UNCHANGED <<reqVars, envVars, storeVars, th, slept, interval_minutes,
                   cancelRequested, cancelledAt, runsStarted>>

\* The server is told to stop (a signal, at any moment, also while the task
\* is inside synchronous code): lifespan is to resume after its yield.
Signal ==
    /\ lifespan = "serving"
    /\ lifespan' = "shutting_down"
    /\ UNCHANGED <<reqVars, envVars, storeVars, th, schedState, sleepLeft, slept,
                   interval_minutes, cancelRequested, cancelledAt, runsStarted>>

\* lifespan after the yield: ingestion_task.cancel(), then `await
\* ingestion_task`.  It runs on the event loop, so only while the task is
\* suspended or over.
Shutdown ==
    /\ lifespan = "shutting_down"
    /\ ~cancelRequested
    /\ TaskSuspended \/ schedState = "Disabled"
    /\ cancelRequested' = TRUE
    /\ lifespan' = "awaiting"
    /\ UNCHANGED <<reqVars, envVars, storeVars, th, schedState, sleepLeft, slept,
                   interval_minutes, cancelledAt, runsStarted>>

\* Variant: lifespan returns after cancel() without awaiting the task.
TaskDoneNotAwaited == TRUE

\* `await ingestion_task` is over: the task has ended, by returning from the
\* coroutine or by CancelledError (which lifespan catches).
TaskDone == schedState \in {"Disabled", "Cancelled"}

\* lifespan returns: the shutdown part is complete.
LifespanExit ==
    /\ lifespan = "awaiting"
    /\ TaskDone
    /\ lifespan' = "exited"
    /\ UNCHANGED <<reqVars, envVars, storeVars, th, schedState, sleepLeft, slept,
                   interval_minutes, cancelRequested, cancelledAt, runsStarted>>

\* CancelledError is raised in the task at the await it is suspended in.  It is
\* a BaseException: no `except Exception` of fetch_page, run_pipeline or the
\* loop catches it, and the task ends cancelled.
CancelDeliver ==
    /\ cancelRequested
    /\ TaskSuspended
    /\ schedState' = "Cancelled"
    /\ cancelledAt' = IF schedState = "Running" THEN "await" ELSE schedState
    /\ Set("task", [th["task"] EXCEPT !.pc = IF schedState = "Running"
                                             THEN "cancelled" ELSE @])
    /\ UNCHANGED <<reqVars, envVars, storeVars, sleepLeft, slept, interval_minutes,
                   cancelRequested, runsStarted, lifespan>>

\* ------------------------------------------------------------ query path
\* No query in progress.  reads: what each read of the query returned;
\* heldBy: the holder of write_lock at the moment of each read.
NoQuery == [pc |-> "idle", reads |-> <<>>, heldBy |-> <<>>]

\* VectorManager.as_retriever: self.vector_store.as_retriever(...), no lock
\* taken; on an instance whose _initialize has not set vector_store (yet) the
\* attribute is missing.
as_retriever(inst) ==
    CASE inst = "ready"     -> {"retriever"}
      [] inst = "allocated" -> {"retriever", "AttributeError"}
      [] OTHER              -> {"AttributeError"}

\* Variant: the retriever's reads made inside `with self.write_lock`.
ReaderMayProceedLocked(lock) == lock = NoThread

\* as_retriever hands out the vector store's own retriever: its reads know
\* nothing of write_lock and go ahead whoever holds it.
ReaderMayProceed(lock) == TRUE

\* A query arrives: the store object is looked up and as_retriever called.
QueryStart ==
    /\ query.pc = "idle"
    /\ instance # None
    /\ \E r \in as_retriever(instance) :
          query' = [NoQuery EXCEPT !.pc = IF r = "retriever" THEN "reading" ELSE "failed"]
    /\ UNCHANGED <<health, envVars, storeVars, th, schedVars>>

\* One read through the retriever returns what the collection holds now.
QueryRead ==
    /\ query.pc = "reading"
    /\ Len(query.reads) < MaxReads
    /\ ReaderMayProceed(write_lock)
    /\ query' = [query EXCEPT !.reads = Append(@, store),
                              !.heldBy = Append(@, write_lock)]
    /\ UNCHANGED <<health, envVars, storeVars, th, schedVars>>

\* The query is answered from what it has read.
QueryAnswer ==
    /\ query.pc = "reading"
    /\ query.reads # <<>>
    /\ query' = [query EXCEPT !.pc = "answered"]
    /\ UNCHANGED <<health, envVars, storeVars, th, schedVars>>

\* The request is over (answered, or failed with the error logged).
QueryDone ==
    /\ query.pc \in {"answered", "failed"}
    /\ query' = NoQuery
    /\ UNCHANGED <<health, envVars, storeVars, th, schedVars>>

\* ---------------------------------------------------------- /health
\* No /health request in progress.  during: the number of the scheduler's run
\* that was in progress when the request arrived, 0 if none was.
NoHealth == [pc |-> "none", during |-> 0, status |-> "-"]

\* health_check's response body.
health_check == [status |-> "healthy"]

\* The event loop can run another coroutine: the task is not in the middle of
\* synchronous code (run_pipeline between two awaits, upsert_documents).
EventLoopFree == ~(schedState = "Running" /\ ~TaskSuspended)

\* A /health request reaches the server (the one before it, if any, has been
\* answered).
HealthArrive ==
    /\ health.pc \in {"none", "answered"}
    /\ lifespan = "serving"
    /\ health' = [NoHealth EXCEPT !.pc = "pending",
                                  !.during = IF schedState = "Running"
                                             THEN runsStarted ELSE 0]
    /\ UNCHANGED <<query, envVars, storeVars, th, schedVars>>

\* health_check is an `async def` route: it runs on the event loop, the same
\* one the ingestion task runs on.
HealthAnswer ==
    /\ health.pc = "pending"
    /\ EventLoopFree
    /\ health' = [health EXCEPT !.pc = "answered", !.status = health_check.status]
    /\ UNCHANGED <<query, envVars, storeVars, th, schedVars>>

\* ------------------------------------------------------ specifications
InitStore ==
    /\ instance = None
    /\ init_lock = NoThread
    /\ initCalls = 0
    /\ write_lock = NoThread
    /\ store = {}
    /\ everWritten = {}
    /\ th = [p \in Threads |-> Fresh]
    /\ query = NoQuery
    /\ health = NoHealth

NoScheduler ==
    /\ schedState = "Idle"
    /\ sleepLeft = 0
    /\ slept = 0
    /\ interval_minutes = -1
    /\ cancelRequested = FALSE
    /\ cancelledAt = "-"
    /\ runsStarted = 0
    /\ lifespan = "serving"

\* Ingestion runs called one after the other by one thread, over every
\* configuration and every content.
InitRuns ==
    /\ cfg \in ConfigFiles(SourceLists, {0})
    /\ web = Texts
    /\ hashSeed \in Seeds
    /\ environ = NoEnviron
    /\ targets = PublicTargets
    /\ startupCfg = cfg
    /\ dupIdsRejected \in BOOLEAN
    /\ InitStore
    /\ NoScheduler

NextRuns == CallRunIngestion("t1") \/ RunStep("t1") \/ Return("t1")

SpecRuns == InitRuns /\ [][NextRuns]_vars


\* The texts that sources serve under the scheduler specification.
WebSched == {"A"}

\* lifespan is entered: the task is not created yet.
InitSched ==
    /\ schedState = "Idle"
    /\ sleepLeft = 0
    /\ slept = 0
    /\ interval_minutes = -1
    /\ cancelRequested = FALSE
    /\ cancelledAt = "-"
    /\ runsStarted = 0
    /\ lifespan = "starting"

\* The process as deployed: startup, the scheduler task, its runs, and shutdown.
Init ==
    /\ cfg \in ConfigFiles(SourceLists, 0..MaxInterval)
    /\ web = WebSched
    /\ hashSeed = 1
    /\ environ = NoEnviron
    /\ targets = PublicTargets
    /\ startupCfg = cfg
    /\ dupIdsRejected \in BOOLEAN
    /\ InitStore
    /\ InitSched

Next ==
    \/ Startup
    \/ Tick
    \/ SchedWake
    \/ RunStep("task")
    \/ SchedAfterRun
    \/ Signal
    \/ Shutdown
    \/ CancelDeliver
    \/ LifespanExit

Spec == Init /\ [][Next]_vars

\* The event loop keeps running: time passes, a due sleep returns, a fetch
\* returns, synchronous code proceeds, a requested cancellation is delivered;
\* lifespan, once told to stop, gets its turn whenever the task yields.
Fairness ==
    /\ WF_vars(Startup)
    /\ WF_vars(Tick)
    /\ WF_vars(SchedWake)
    /\ WF_vars(RunStep("task"))
    /\ WF_vars(SchedAfterRun)
    /\ WF_vars(CancelDeliver)
    /\ SF_vars(Shutdown)
    /\ WF_vars(LifespanExit)

FairSpec == Spec /\ Fairness


\* The texts that sources serve under the threads specification.
WebThreads == {"A", "B"}

\* Two threads of the process, each calling run_ingestion() at any time.
InitThreads ==
    /\ cfg \in ConfigFiles({l \in SourceLists : Len(l) <= 1}, {0})
    /\ web = WebThreads
    /\ hashSeed \in Seeds
    /\ environ = NoEnviron
    /\ targets = PublicTargets
    /\ startupCfg = cfg
    /\ dupIdsRejected \in BOOLEAN
    /\ InitStore
    /\ NoScheduler

NextThreads ==
    \E p \in {"t1", "t2"} : CallRunIngestion(p) \/ RunStep(p) \/ Return(p)

SpecThreads == InitThreads /\ [][NextThreads]_vars

\* Two threads ingesting the same one-source configuration again and again,
\* their writes succeeding or raising.
InitLock ==
    /\ cfg \in ConfigFiles({<<"static_url">>, <<"dynamic_json">>}, {0})
    /\ web = {"A"}
    /\ hashSeed = 1
    /\ environ = NoEnviron
    /\ targets = PublicTargets
    /\ startupCfg = cfg
    /\ dupIdsRejected \in BOOLEAN
    /\ InitStore
    /\ NoScheduler

\* A thread inside run_ingestion() keeps running; a thread blocked in
\* write_lock.acquire() is woken when the lock is released and gets it at one
\* of the releases.
FairThreads ==
    /\ InitLock
    /\ [][NextThreads]_vars
    /\ \A p \in {"t1", "t2"} : WF_vars(RunStep(p)) /\ SF_vars(UpsertAcquire(p))


\* The texts that sources serve under the query specification.
WebQuery == {"A", "B"}

\* One thread making ingestion runs while the query path serves queries.
InitQuery ==
    /\ cfg \in ConfigFiles({l \in SourceLists : Len(l) <= 1}, {0})
    /\ web = WebQuery
    /\ hashSeed \in Seeds
    /\ environ = NoEnviron
    /\ targets = PublicTargets
    /\ startupCfg = cfg
    /\ dupIdsRejected \in BOOLEAN
    /\ InitStore
    /\ NoScheduler

NextQuery ==
    \/ CallRunIngestion("t1")
    \/ RunStep("t1")
    \/ Return("t1")
    \/ QueryStart
    \/ QueryRead
    \/ QueryAnswer
    \/ QueryDone

\* The query path keeps running whatever the ingesting thread does (which may
\* take any time, or stall, at any of its steps).
SpecQuery == InitQuery /\ [][NextQuery]_vars /\ WF_vars(QueryRead \/ QueryAnswer)


\* The process ends (at any moment) and a new one is started against the same
\* persistent Chroma directory: the collection is kept; the class state, the
\* locks and every run in progress are gone; the new process has its own
\* hash seed.
Restart ==
    /\ hashSeed' \in Seeds
    /\ instance' = None
    /\ init_lock' = NoThread
    /\ initCalls' = 0
    /\ write_lock' = NoThread
    /\ th' = [p \in Threads |-> Fresh]
    /\ UNCHANGED <<reqVars, cfg, startupCfg, targets, web, environ, dupIdsRejected, store, everWritten,
                   schedVars>>

\* The texts that sources serve under the restart specification.
WebRestart == {"A", "B"}

\* Ingestion runs of a process that is restarted now and then.
InitRestart ==
    /\ cfg \in ConfigFiles({l \in SourceLists : Len(l) <= 1}, {0})
    /\ web = WebRestart
    /\ hashSeed \in Seeds
    /\ environ = NoEnviron
    /\ targets = PublicTargets
    /\ startupCfg = cfg
    /\ dupIdsRejected \in BOOLEAN
    /\ InitStore
    /\ NoScheduler

NextRestart ==
    \/ CallRunIngestion("t1")
    \/ RunStep("t1")
    \/ Return("t1")
    \/ Restart

SpecRestart == InitRestart /\ [][NextRestart]_vars


\* The configuration files of the reload specification.
ReloadConfigs == ConfigFiles({l \in SourceLists : Len(l) <= 1}, 0..MaxInterval)

\* The configuration file is rewritten while the process runs.
EditConfig ==
    /\ lifespan # "starting"
    /\ cfg' \in ReloadConfigs \ {cfg}
    /\ UNCHANGED <<reqVars, startupCfg, targets, web, hashSeed, environ, dupIdsRejected, storeVars,
                   th, schedVars>>

\* The deployed process, its configuration file edited at any moment.
InitReload ==
    /\ cfg \in ReloadConfigs
    /\ web = WebSched
    /\ hashSeed = 1
    /\ environ = NoEnviron
    /\ targets = PublicTargets
    /\ startupCfg = cfg
    /\ dupIdsRejected = FALSE
    /\ InitStore
    /\ InitSched

NextReload == Next \/ EditConfig

SpecReload == InitReload /\ [][NextReload]_vars


\* The server with /health requests arriving at any moment.  A request that
\* can be handled is handled before the task is resumed: the handler is never
\* the one that is late.
LoopTurn ==
    /\ ~(health.pc = "pending" /\ EventLoopFree)
    /\ Next

NextHealth == HealthArrive \/ HealthAnswer \/ LoopTurn

SpecHealth == Init /\ [][NextHealth]_vars


\* Ingestion runs over sources whose targets point at any kind of host.
InitTargets ==
    /\ cfg \in ConfigFiles(SourceLists, {0})
    /\ web = {"A"}
    /\ hashSeed = 1
    /\ environ = NoEnviron
    /\ startupCfg = cfg
    /\ targets \in [1..NSources -> Hosts]
    /\ dupIdsRejected = FALSE
    /\ InitStore
    /\ NoScheduler

NextTargets == CallRunIngestion("t1") \/ RunStep("t1") \/ Return("t1")

SpecTargets == InitTargets /\ [][NextTargets]_vars


\* Ingestion runs over configuration files whose string value holds ${VAR}
\* placeholders, under every environment.
InitConfig ==
    /\ cfg \in ConfigFilesWithTarget(SeqsUpTo(Tokens, MaxStrLen))
    /\ web = {"A"}
    /\ hashSeed = 1
    /\ environ \in Environs
    /\ targets = PublicTargets
    /\ startupCfg = cfg
    /\ dupIdsRejected = FALSE
    /\ InitStore
    /\ NoScheduler

NextConfig == CallRunIngestion("t1") \/ RunStep("t1") \/ Return("t1")

SpecConfig == InitConfig /\ [][NextConfig]_vars


\* ------------------------------------------------------------------ claims
RECURSIVE Flatten(_)
\* The documents of a run's sources, in source order.
Flatten(results) ==
    IF results = <<>> THEN <<>> ELSE Head(results).docs \o Flatten(Tail(results))

\* The run of thread record t has left the loop over its sources.
PastLoop(t) ==
    \/ t.pc \in {"lock_wait", "writing", "written"}
    \/ t.pc = "returned" /\ t.outcome \in {"unchanged", "complete", "critical"}

\* C1: whatever sources fail (raise or return nothing), a run that has loaded
\* its sources leaves the loop only after attempting every one of them, and the
\* batch it hands to upsert_documents is exactly the documents of the sources
\* that produced some, in order.
C1_FailureIsolation ==
    \A p \in Threads :
        LET t == th[p]
        IN  /\ t.pc \in {"loop", "await"} => Len(t.results) = t.idx - 1
            /\ PastLoop(t) =>
                  /\ Len(t.results) = Len(t.config.sources)
                  /\ t.all_docs = Flatten(t.results)
            /\ t.pc = "written" => t.handed.documents = Flatten(t.results)

\* C1 witness: the first source raised, the second produced documents, and
\* the batch with them has been handed to the store.
C1_Witness ==
    /\ th["t1"].pc = "written"
    /\ Len(th["t1"].results) = 2
    /\ th["t1"].results[1].kind = "raise"
    /\ th["t1"].results[2].docs = <<"A", "B">>
    /\ th["t1"].handed.documents = <<"A", "B">>

\* C3 (state part): a run none of whose sources produced a document has not
\* called upsert_documents and neither waits for nor holds the write lock.
C3_NoUpsertInv ==
    \A p \in Threads :
        LET t == th[p]
        IN  (\A i \in 1..Len(t.results) : t.results[i].docs = <<>>) =>
                /\ t.upsertCalls = 0
                /\ ~t.lockTaken
                /\ write_lock # p
                /\ t.pc \notin {"lock_wait", "writing", "written"}

\* C3: an ingestion run whose sources all fail or yield nothing (or that has
\* no sources) never calls upsert_documents nor takes the write lock, and the
\* store only ever changes in the write of a run that collected documents.
C3_EmptyBatchNoOp ==
    /\ []C3_NoUpsertInv
    /\ [][store' # store =>
            \E p \in Threads :
                /\ th[p].pc = "writing"
                /\ \E i \in 1..Len(th[p].results) : th[p].results[i].docs # <<>>]_vars

\* C3 witness: a run over two sources, one raising and one returning nothing,
\* has ended with the batch empty while the store holds an earlier run's entry.
C3_Witness ==
    /\ th["t1"].pc = "returned"
    /\ th["t1"].outcome = "unchanged"
    /\ Len(th["t1"].results) = 2
    /\ th["t1"].results[1].kind = "raise"
    /\ th["t1"].results[2].kind = "ok"
    /\ store # {}

\* C4: what upsert_documents hands to the store is the collected batch with
\* each fingerprint kept at its first occurrence only, in order.
C4_WrittenFirstOccurrences ==
    \A p \in Threads :
        th[p].pc = "written" =>
            /\ th[p].handed.documents = UniqueMap(hashSeed, th[p].all_docs, {})
            /\ th[p].handed.ids =
                  TemplateIds(hashSeed, UniqueMap(hashSeed, th[p].all_docs, {}))

\* C7: upsert_documents returns normally only when add_documents accepted the
\* batch; a failed write is reported to the caller.
C7_FailedWriteReported ==
    \A p \in Threads :
        /\ th[p].upsertReturn = "normal" => ~th[p].addFailed
        /\ th[p].outcome = "complete" => ~th[p].addFailed

Ids(st) == {e.id : e \in st}

InWriteSection(p) == th[p].pc \in {"writing", "written"}

\* C2 (state part): at most one thread is inside the with-block of
\* upsert_documents, and it is the holder of the write lock.
C2_MutexInv ==
    /\ Cardinality({p \in Threads : InWriteSection(p)}) <= 1
    /\ \A p \in Threads : InWriteSection(p) <=> write_lock = p

\* C2: at most one upsert_documents call is in its write section at any time;
\* a run that reaches the lock while another holds it stays where it is (it
\* neither fails nor skips its write), enters the section only once the lock
\* is free, and the store changes only in a step of the lock's holder.
C2_SingleWriter ==
    /\ []C2_MutexInv
    /\ [][\A p \in Threads :
            th[p].pc = "lock_wait" =>
               /\ write_lock # NoThread => th'[p] = th[p]
               /\ th'[p].pc \in {"lock_wait", "writing"}
               /\ th'[p].pc = "writing" => write_lock = NoThread /\ write_lock' = p]_vars
    /\ [][store' # store =>
            \E p \in Threads : write_lock = p /\ th[p].pc = "writing"
                               /\ th'[p].pc = "written"]_vars

\* C2 witness: t1 is inside its write section while t2, with its own batch,
\* is blocked at the lock.
C2_Witness ==
    /\ th["t1"].pc = "writing"
    /\ th["t2"].pc = "lock_wait"
    /\ th["t1"].all_docs # <<>>
    /\ th["t2"].all_docs # <<>>
    /\ write_lock = "t1"

\* C6: _initialize runs at most once, and every caller of get_vector_db() gets
\* the instance fully initialized (never while _initialize runs, never after
\* it failed).
C6_FullyInitializedSingleton ==
    /\ initCalls <= 1
    /\ \A p \in Threads : th[p].got \in {"-", "ready"}

\* C5 as stated: the task is cancelled at the warm-up sleep or at the sleep
\* between runs only, never inside a run.
C5_CancelledOnlyAtSleeps ==
    /\ schedState = "Cancelled" => cancelledAt \in {"WarmingUp", "Waiting"}
    /\ th["task"].pc # "cancelled"

\* C5 amended: cancellation takes effect at a suspension point of the task:
\* the warm-up sleep, the sleep between runs, or the await of a source fetch
\* inside a run.  A run cancelled at a fetch is abandoned there, with that
\* source's fetch unfinished and no upsert made; a run that has reached its
\* upsert is never cancelled before the upsert has returned.
C5_CancelledAtSuspension ==
    LET t == th["task"]
    IN  /\ schedState = "Cancelled" <=> cancelledAt # "-"
        /\ cancelledAt \in {"-", "WarmingUp", "Waiting", "await"}
        /\ t.pc = "cancelled" <=> cancelledAt = "await"
        /\ t.pc = "cancelled" =>
              /\ t.idx \in 1..Len(t.config.sources)
              /\ Len(t.results) = t.idx - 1
              /\ t.upsertCalls = 0
              /\ ~t.lockTaken
        /\ t.pc \in {"lock_wait", "writing", "written"} => ~cancelRequested

\* C5 witness: shutdown came while the run awaited its second source; the run
\* was abandoned with the first source's document collected and never written.
C5_Witness ==
    /\ schedState = "Cancelled"
    /\ cancelledAt = "await"
    /\ th["task"].idx = 2
    /\ th["task"].all_docs = <<"A">>
    /\ store = {}

IntervalRead == ReadInterval(load_runtime_config(cfg))

\* C9: with refresh_interval_minutes 0 the loop starts at most one ingestion
\* run, it is never waiting for a next one, once the run is over the loop is
\* in its terminal Disabled state with exactly one run made, and it stays
\* there; unless cancelled first, it does get there.
C9_IntervalZeroOneRun ==
    /\ [](IntervalRead = 0 =>
            /\ runsStarted <= 1
            /\ schedState # "Waiting"
            /\ schedState = "Disabled" => runsStarted = 1 /\ th["task"] = Fresh)
    /\ [][schedState = "Disabled" =>
            schedState' = "Disabled" /\ runsStarted' = runsStarted /\ th' = th]_vars
    /\ (IntervalRead = 0) ~> (schedState \in {"Disabled", "Cancelled"})

\* C9 witness: a configuration with interval 0, the one run made and the loop
\* ended, the store holding what that run wrote.
C9_Witness ==
    /\ cfg.ok
    /\ cfg.interval = 0
    /\ schedState = "Disabled"
    /\ runsStarted = 1
    /\ store # {}

\* C10: with refresh_interval_minutes = N > 0 the loop goes Running, Waiting,
\* Running, ... until cancelled; a run after the first starts only when the
\* loop has slept N * 60 seconds since the previous run ended; and while no
\* shutdown is signalled a wait always leads to a run and a run to a wait.
C10_PeriodicRuns ==
    /\ [](schedState = "Running" /\ runsStarted >= 2 =>
            /\ interval_minutes > 0
            /\ slept >= interval_minutes * SecondsPerMinute)
    /\ [](schedState = "Waiting" => interval_minutes = IntervalRead /\ interval_minutes > 0)
    /\ [](IntervalRead > 0 => schedState # "Disabled")
    /\ [][/\ schedState = "Waiting" => schedState' \in {"Waiting", "Running", "Cancelled"}
          /\ schedState = "Running" /\ IntervalRead > 0 =>
                schedState' \in {"Running", "Waiting", "Cancelled"}]_vars
    /\ (schedState = "Waiting" /\ ~cancelRequested)
          ~> (schedState = "Running" \/ cancelRequested)
    /\ (schedState = "Running" /\ IntervalRead > 0 /\ ~cancelRequested)
          ~> (schedState = "Waiting" \/ cancelRequested)

\* C10 witness: a second run has started, after a full interval's sleep.
C10_Witness ==
    /\ schedState = "Running"
    /\ runsStarted = 2
    /\ interval_minutes = 1
    /\ slept >= SecondsPerMinute

\* C11: when shutdown is signalled while the loop is waiting between runs, the
\* task starts no other ingestion run: it stays in its wait, with no run begun
\* and the store untouched, until CancelledError ends it, and it does reach
\* Cancelled.
C11_CancelWhileWaiting ==
    /\ [][schedState = "Waiting" /\ cancelRequested =>
            /\ schedState' \in {"Waiting", "Cancelled"}
            /\ runsStarted' = runsStarted
            /\ th'["task"] = th["task"]
            /\ store' = store]_vars
    /\ [](cancelledAt = "Waiting" => schedState = "Cancelled" /\ th["task"] = Fresh)
    /\ (schedState = "Waiting" /\ cancelRequested) ~> (schedState = "Cancelled")

\* C11 witness: shutdown came in the wait after the first run, when the sleep's
\* time was up already; the task is cancelled with that one run made.
C11_Witness ==
    /\ schedState = "Cancelled"
    /\ cancelledAt = "Waiting"
    /\ sleepLeft = 0
    /\ runsStarted = 1
    /\ th["task"] = Fresh

\* An exception was raised somewhere inside the run_pipeline() of thread record t.
RaisedInPipeline(t) ==
    \/ \E i \in 1..Len(t.results) : t.results[i].kind = "raise"
    \/ t.addFailed
    \/ t.upsertReturn = "raised"

\* C12 as stated: run_ingestion() never raises to its caller, and no exception
\* of a run passes through it.
C12_RunNeverRaises ==
    \A p \in Threads : th[p].outcome # "raised" /\ th[p].pc # "cancelled"

\* C12 amended: an exception raised inside run_pipeline (by a source, by the
\* store write, by a store that was never initialized) is handled at or below
\* run_pipeline and run_ingestion() returns normally; run_ingestion() raises
\* exactly when the construction of the engine's store failed, before
\* run_pipeline was entered, and then the loop takes it as the end of the run;
\* the only other exception leaving a run is the task's own CancelledError,
\* at a fetch.
C12_OnlyConstructionRaises ==
    /\ [](\A p \in Threads :
            LET t == th[p]
            IN  /\ t.pc = "returned" => (t.outcome = "raised" <=> t.got = "-")
                /\ t.outcome = "raised" =>
                      /\ t.pc = "returned"
                      /\ instance = "broken"
                      /\ t.config = NoConfig /\ t.results = <<>> /\ t.upsertCalls = 0
                /\ t.pc = "returned" /\ RaisedInPipeline(t) =>
                      t.outcome \in {"unchanged", "complete", "critical"}
                /\ t.pc = "cancelled" =>
                      p = "task" /\ cancelledAt = "await" /\ cancelRequested)
    /\ [][schedState = "Running" /\ th["task"].outcome = "raised" =>
            schedState' \in {"Running", "Waiting", "Disabled"}]_vars

\* C12 witness: in a run using a store whose initialization had failed, a
\* source raised and then the upsert raised; run_pipeline logged both and the
\* run returned.
C12_Witness ==
    /\ th["task"].pc = "returned"
    /\ th["task"].got = "broken"
    /\ Len(th["task"].results) = 2
    /\ th["task"].results[1].kind = "raise"
    /\ th["task"].upsertReturn = "raised"
    /\ th["task"].outcome = "critical"

\* The run of thread record t is over and has failed: run_ingestion() raised,
\* run_pipeline logged CRITICAL, a source raised or the store write failed.
RunFailed(t) ==
    /\ t.pc = "returned"
    /\ t.outcome \in {"raised", "critical"} \/ RaisedInPipeline(t)

\* C13: with refresh_interval_minutes > 0 and no shutdown signalled the task is
\* always in its warm-up, in a run or waiting for the next one; when a run has
\* failed (a source, the store write or the store's initialization) the loop's
\* next step is the wait of a full interval, it does take it, and the wait
\* leads to the start of the next run.
C13_LoopSurvivesFailures ==
    /\ [](IntervalRead > 0 /\ ~cancelRequested =>
            schedState \in {"Idle", "WarmingUp", "Running", "Waiting"})
    /\ [][schedState # "Idle" => schedState' # "Idle"]_vars
    /\ [][schedState = "Running" /\ RunFailed(th["task"]) /\ IntervalRead > 0 =>
            \/ schedState' = "Running" /\ th'["task"] = th["task"]
            \/ /\ schedState' = "Waiting"
               /\ sleepLeft' = IntervalRead * SecondsPerMinute
               /\ th'["task"] = Fresh]_vars
    /\ (schedState = "Running" /\ RunFailed(th["task"]) /\ IntervalRead > 0)
          ~> (schedState = "Waiting")
    /\ (schedState = "Waiting" /\ ~cancelRequested)
          ~> (cancelRequested \/ (schedState = "Running" /\ th["task"].pc = "new"))

\* C13 witness: the store's initialization failed in the first run; the loop
\* has slept its interval and started the second run, which gets the same store.
C13_Witness ==
    /\ schedState = "Running"
    /\ runsStarted = 2
    /\ instance = "broken"
    /\ initCalls = 1
    /\ th["task"].got = "broken"
    /\ slept >= SecondsPerMinute
    /\ ~cancelRequested

\* C14 (state part): a run calls upsert_documents at most once; while it is
\* still going through its sources it has called it not at all and handed
\* nothing to the store.
C14_NoWriteMidRun ==
    \A p \in Threads :
        LET t == th[p]
        IN  /\ t.upsertCalls <= 1
            /\ t.pc \in {"load_config", "loop", "await"} =>
                  t.upsertCalls = 0 /\ t.handed.documents = <<>> /\ ~t.lockTaken
            /\ t.upsertCalls = 1 => Len(t.results) = Len(t.config.sources)

\* C14: within one run the store is written at most once and only when every
\* configured source has been attempted; what is handed to the store in that
\* one write is the concatenation, in source order, of the documents the
\* sources returned, and the store changes in no other step of the run.
C14_SingleWriteAfterAllSources ==
    /\ []C14_NoWriteMidRun
    /\ [][\A p \in Threads :
            th[p].pc = "writing" /\ th'[p].pc = "written" =>
               LET batch == Flatten(th[p].results)
               IN  /\ th[p].upsertCalls = 1
                   /\ th[p].handed.documents = <<>>
                   /\ Len(th[p].results) = Len(th[p].config.sources)
                   /\ th'[p].handed.documents = batch
                   /\ store' \in {store,
                                  AddDocuments(store, batch, TemplateIds(hashSeed, batch))}]_vars
    /\ [][store' # store =>
            \E p \in Threads : th[p].pc = "writing" /\ th'[p].pc = "written"]_vars

\* C14 witness: the first source gave "B", the second "A" and "C"; the one
\* write of the run put the three, in that order, into the empty store.
C14_Witness ==
    /\ th["t1"].pc = "written"
    /\ th["t1"].upsertCalls = 1
    /\ Len(th["t1"].results) = 2
    /\ th["t1"].results[1].docs = <<"B">>
    /\ th["t1"].results[2].docs = <<"A", "C">>
    /\ th["t1"].handed.documents = <<"B", "A", "C">>
    /\ ~th["t1"].overwrote
    /\ Cardinality(store) = 3

InUpsert(t) == t.pc \in {"lock_wait", "writing", "written"}

\* C15: lifespan's shutdown cancels the task and returns only when the task
\* has ended; once the server is told to stop that does happen, wherever the
\* task is; and a task that is inside upsert_documents is neither cancelled
\* nor stopped there: the upsert goes on to its return, shutdown pending or not.
C15_ShutdownAwaitsTask ==
    /\ [](lifespan = "exited" =>
            cancelRequested /\ schedState \in {"Disabled", "Cancelled"})
    /\ [](lifespan = "awaiting" <=> cancelRequested /\ lifespan # "exited")
    /\ [](InUpsert(th["task"]) => schedState = "Running" /\ ~cancelRequested)
    /\ [][InUpsert(th["task"]) =>
            /\ InUpsert(th'["task"]) \/ th'["task"].pc = "returned"
            /\ th["task"].pc = "writing" /\ th'["task"].pc # "writing" =>
                  th'["task"].pc = "written"
                  /\ th'["task"].handed.documents = th["task"].all_docs]_vars
    /\ (lifespan = "shutting_down") ~> (lifespan = "exited")
    /\ (lifespan = "shutting_down" /\ InUpsert(th["task"]))
          ~> (th["task"].pc = "returned" /\ th["task"].upsertReturn = "normal")

\* C15 witness: the server was told to stop while the task was in its upsert;
\* the upsert has written its batch and is about to return, the task not yet
\* cancelled.
C15_Witness ==
    /\ lifespan = "shutting_down"
    /\ th["task"].pc = "written"
    /\ th["task"].handed.documents = <<"A">>
    /\ store = {[id |-> PyHash(hashSeed, "A"), text |-> "A"]}
    /\ ~cancelRequested

\* The positions of a run between its start and its return.
InRun(t) ==
    t.pc \in {"new", "init_wait", "initializing", "load_config", "loop", "await",
              "lock_wait", "writing", "written"}

\* C16: once VectorManager._initialize has failed the process does not go on:
\* the loop neither waits for a next ingestion cycle nor starts one.
C16_InitFailureIsFatal ==
    instance = "broken" =>
        /\ schedState # "Waiting"
        /\ ~InRun(th["task"])

\* C17 as stated: with the configuration file missing or malformed the
\* scheduler is not started: no warm-up, no ingestion run, no store constructed.
C17_NoConfigNoScheduler ==
    ~cfg.ok =>
        /\ schedState \notin {"WarmingUp", "Running"}
        /\ runsStarted = 0
        /\ instance = None /\ initCalls = 0

\* C17 amended: with the configuration file missing or malformed the scheduler
\* starts all the same, warms up and makes its initial run, which constructs
\* the store and is then skipped; no source is fetched, nothing is handed or
\* written to the store, the interval is read as 0 and no second run is made.
C17_NoConfigOnlySkippedRun ==
    ~cfg.ok =>
        LET t == th["task"]
        IN  /\ runsStarted <= 1
            /\ schedState # "Waiting"
            /\ interval_minutes \in {-1, 0}
            /\ t.pc \notin {"loop", "await", "lock_wait", "writing", "written", "cancelled"}
            /\ t.results = <<>> /\ t.all_docs = <<>> /\ t.upsertCalls = 0
            /\ t.pc = "returned" => t.outcome \in {"skipped", "raised"}
            /\ t.outcome = "skipped" => instance = "ready" /\ initCalls = 1
            /\ store = {} /\ everWritten = {}
            /\ schedState = "Disabled" => runsStarted = 1 /\ instance # None

\* C17 witness: no configuration; the initial run constructed the store, was
\* skipped, and the loop has ended.
C17_Witness ==
    /\ ~cfg.ok
    /\ schedState = "Disabled"
    /\ runsStarted = 1
    /\ instance = "ready"
    /\ initCalls = 1
    /\ store = {}

C19_PlaceholdersExpanded ==
    \A p \in Threads :
        th[p].config.ok =>
            th[p].config.target = expand_env_vars(cfg.target, environ)

\* The number of sources of a run that raised.
RECURSIVE Failures(_)
Failures(results) ==
    IF results = <<>> THEN 0
    ELSE (IF Head(results).kind = "raise" THEN 1 ELSE 0) + Failures(Tail(results))

\* The outcome value a run is to report: NoOp for a run that wrote nothing for
\* want of documents, Failed for a run that ended in an error or whose store
\* write failed, else completed, with the counts of the run.
RunOutcome(t) ==
    IF t.outcome \in {"skipped", "unchanged"} THEN [kind |-> "NoOp"]
    ELSE IF t.outcome = "critical" \/ t.addFailed THEN [kind |-> "Failed"]
    ELSE [kind |-> "completed",
          sourcesAttempted |-> Len(t.results),
          sourcesFailed |-> Failures(t.results),
          unitsWritten |-> Len(UniqueMap(hashSeed, t.all_docs, {})),
          duplicatesDropped |-> Len(t.all_docs) - Len(UniqueMap(hashSeed, t.all_docs, {}))]

\* C20: a run that has returned has given its caller an outcome value that
\* tells NoOp, Failed and completed apart and, when completed, carries the
\* run's actual counts.
C20_RunReportsOutcome ==
    \A p \in Threads :
        th[p].pc = "returned" /\ th[p].outcome # "raised" =>
            run_pipeline_return(th[p]) = RunOutcome(th[p])

\* C21: the loop's first ingestion run begins only when the warm-up sleep of
\* WarmupSeconds has been slept in full, for every refresh interval and also
\* without a configuration; until then nothing of a run has happened; and when
\* shutdown is signalled during the warm-up the task stays in it until it is
\* cancelled, which it is, with no run ever started.
C21_WarmupBeforeFirstRun ==
    /\ [](schedState \in {"Idle", "WarmingUp"} =>
            runsStarted = 0 /\ th["task"] = Fresh /\ instance = None /\ store = {})
    /\ [][schedState = "WarmingUp" /\ schedState' = "Running" =>
            slept >= WarmupSeconds /\ sleepLeft = 0 /\ ~cancelRequested]_vars
    /\ [][schedState = "WarmingUp" /\ cancelRequested =>
            schedState' \in {"WarmingUp", "Cancelled"} /\ runsStarted' = 0]_vars
    /\ [](cancelledAt = "WarmingUp" =>
            schedState = "Cancelled" /\ runsStarted = 0 /\ th["task"] = Fresh
            /\ instance = None)
    /\ (schedState = "WarmingUp" /\ cancelRequested) ~> (schedState = "Cancelled")

\* C21 witness: shutdown came during the warm-up of a process configured with
\* a refresh interval; the task was cancelled there and lifespan has returned,
\* no run made.
C21_Witness ==
    /\ cfg.ok /\ cfg.interval > 0
    /\ schedState = "Cancelled"
    /\ cancelledAt = "WarmingUp"
    /\ sleepLeft > 0
    /\ runsStarted = 0
    /\ lifespan = "exited"

\* C22: the storage id is a function of the text alone, the same in every run
\* and in every process: the persistent collection never holds two entries
\* with the same text, and a text ingested again after a restart is stored
\* under the id it had before.
C22_FingerprintOfTextOnly ==
    \A e1, e2 \in store : e1.text = e2.text => e1.id = e2.id

\* C23: while an upsert_documents call holds the write lock the query path
\* makes no read of the store: every read of a query was made with the lock
\* free.
C23_WritingBlocksReading ==
    \A i \in 1..Len(query.heldBy) : query.heldBy[i] = NoThread

\* C24 as stated: the sources of every run and the interval of the schedule
\* are those of the configuration file as it was at startup.
C24_ConfigLoadedOnce ==
    /\ th["task"].config.ok => th["task"].config = load_runtime_config(startupCfg)
    /\ th["task"].outcome = "skipped" =>
          load_runtime_config(startupCfg) = NoConfig \/ startupCfg.sources = <<>>
    /\ interval_minutes # -1 =>
          interval_minutes = ReadInterval(load_runtime_config(startupCfg))

\* C24 amended: the configuration file is read anew at the beginning of every
\* ingestion run, so an edit takes effect on the sources of the next run and
\* never on a run that has loaded its sources; the refresh interval is read
\* once, when the initial run is over, from the file as it is then, and no
\* later edit changes the schedule.
C24_ReloadedPerRun ==
    /\ [][th["task"].pc = "load_config" /\ th'["task"].pc # "load_config" =>
            LET config == load_runtime_config(cfg)
            IN  IF config = NoConfig \/ config.sources = <<>>
                THEN th'["task"].outcome = "skipped"
                ELSE th'["task"].pc = "loop" /\ th'["task"].config = config]_vars
    /\ [][th["task"].config.ok /\ InRun(th["task"]) /\ th'["task"].pc # "idle" =>
            th'["task"].config = th["task"].config]_vars
    /\ [][interval_minutes = -1 /\ interval_minutes' # -1 =>
            /\ runsStarted = 1 /\ th["task"].pc = "returned"
            /\ interval_minutes' = ReadInterval(load_runtime_config(cfg))]_vars
    /\ [][interval_minutes # -1 => interval_minutes' = interval_minutes]_vars
    /\ [][schedState = "Running" /\ schedState' = "Waiting" =>
            sleepLeft' = interval_minutes' * SecondsPerMinute]_vars

\* C24 witness: the process started with one source list and interval 1; the
\* file was edited after the interval had been read; the second run has loaded
\* the edited source list, while the schedule is still the one first read.
C24_Witness ==
    /\ schedState = "Running"
    /\ runsStarted = 2
    /\ startupCfg.ok /\ startupCfg.interval = 1
    /\ startupCfg.sources = <<"static_url">>
    /\ cfg.ok /\ cfg.interval = 0
    /\ th["task"].pc = "await"
    /\ th["task"].config = cfg
    /\ th["task"].config.sources = <<"dynamic_json">>
    /\ interval_minutes = 1

\* C25: no network request is issued for a source whose target hostname is
\* localhost, 127.0.0.1, 0.0.0.0 or ::1 or is missing, whatever the source's
\* type, and such a source contributes no documents.
C25_NoRequestToInternalHost ==
    \A p \in Threads :
        /\ \A i \in th[p].requests : is_safe_url(targets[i])
        /\ \A i \in 1..Len(th[p].results) :
              ~is_safe_url(targets[i]) =>
                  th[p].results[i].docs = <<>> /\ th[p].results[i].kind # "raise"

\* C26: a /health request is answered with status healthy whatever the state
\* of ingestion, and a request that arrived during a run of the scheduler is
\* not still unanswered when that run, store write included, ends.
C26_HealthNotDelayedByRun ==
    /\ [](health.pc = "answered" => health.status = "healthy")
    /\ [][~(/\ health.pc = "pending"
            /\ health.during # 0
            /\ schedState = "Running"
            /\ schedState' # "Running")]_vars

\* C27: write_lock is held only by a thread inside the with-block of
\* upsert_documents, so it is free whenever upsert_documents has returned,
\* also after a write that raised; and a thread waiting for it gets it.
C27_LockReleasedOnReturn ==
    /\ [](\A p \in Threads : write_lock = p <=> th[p].pc \in {"writing", "written"})
    /\ \A p \in {"t1", "t2"} : (th[p].pc = "lock_wait") ~> (th[p].pc = "writing")

\* t1's write raised and t1 has left upsert_documents; t2 holds the lock.
C27_Witness ==
    /\ th["t1"].addFailed
    /\ th["t1"].upsertReturn = "normal"
    /\ th["t1"].pc = "returned"
    /\ th["t2"].lockTaken
    /\ write_lock = "t2"

\* C28: the scheduler has one run at a time: while the loop sleeps (warm-up or
\* interval) no run is in progress, no thread but the task ever runs one, a
\* run starts only from a sleep of the loop with the previous run over, and
\* the interval wait begins only at a run that has returned.
C28_RunsOneAtATime ==
    /\ [](schedState \in {"Idle", "WarmingUp", "Waiting", "Disabled"} => th["task"] = Fresh)
    /\ [](th["t1"] = Fresh /\ th["t2"] = Fresh)
    /\ [][th'["task"].pc = "new" /\ th["task"].pc # "new" =>
            /\ schedState \in {"WarmingUp", "Waiting"}
            /\ th["task"] = Fresh]_vars
    /\ [][schedState = "Running" /\ schedState' = "Waiting" =>
            /\ th["task"].pc = "returned"
            /\ th'["task"] = Fresh]_vars

\* C28 witness: the second run of the scheduler is fetching; the first has
\* written the store and returned.
C28_Witness ==
    /\ schedState = "Running"
    /\ runsStarted = 2
    /\ th["task"].pc = "await"
    /\ store # {}

\* C29: a source of type local_file is passed over: the run never awaits a
\* fetch for it and issues no request, records no documents and no exception
\* for it; a run whose sources are all local_file returns with the batch
\* empty, upsert_documents not called and nothing raised; and the store
\* changes only in the write of a run that has a source of another type.
C29_LocalFileSkipped ==
    /\ [](\A p \in Threads :
            LET t == th[p]
                local(i) == t.config.sources[i] = "local_file"
            IN  /\ t.pc = "await" => ~local(t.idx)
                /\ \A i \in 1..Len(t.results) :
                      local(i) => /\ t.results[i] = [kind |-> "skip", docs |-> <<>>]
                                  /\ i \notin t.requests
                /\ ( /\ t.pc = "returned"
                     /\ t.config.sources # <<>>
                     /\ \A i \in 1..Len(t.config.sources) : local(i) )
                   => /\ t.outcome = "unchanged"
                      /\ t.all_docs = <<>>
                      /\ t.upsertCalls = 0
                      /\ ~RaisedInPipeline(t))
    /\ [][store' # store =>
            \E p \in Threads :
                /\ th[p].pc = "writing"
                /\ \E i \in 1..Len(th[p].config.sources) :
                      th[p].config.sources[i] # "local_file"]_vars

\* C29 witness: a run over two local_file sources has returned.
C29_Witness ==
    /\ th["t1"].pc = "returned"
    /\ th["t1"].config.sources = <<"local_file", "local_file">>
    /\ Len(th["t1"].results) = 2
    /\ th["t1"].outcome = "unchanged"
    /\ store = {}

====
